---------------------------- MODULE Spec2Model ----------------------------
(***************************************************************************)
(* Model of src/glob.rs of xdg-mime-rs: classification of glob patterns,   *)
(* the Glob entry with its constructors and its two textual parsers, the   *)
(* per-entry match predicate, the line-oriented loaders and the GlobMap    *)
(* registry with its lookup.                                               *)
(*                                                                         *)
(* Strings are sequences of one-character strings, so that splitting,      *)
(* suffix tests, lowercasing and integer parsing are computed character by *)
(* character as the Rust code does.                                        *)
(***************************************************************************)
EXTENDS Integers, Sequences, FiniteSets, TLC

VARIABLES
    globs,      \* GlobMap.globs: the registry's Vec<Glob>
    inserted,   \* history: every entry handed to add_glob/add_globs, in call order
    input,      \* the arguments the behaviour was started with (pure-function specifications)
    op,         \* name of the last operation called
    arg,        \* its argument
    ret         \* its result

vars == <<globs, inserted, input, op, arg, ret>>

(***************************************************************************)
(* Bounds of the model.                                                    *)
(***************************************************************************)
MaxGlobs == 3       \* most entries held by the registry
MaxBulk == 2        \* most entries handed to one add_globs call
MaxPatLen == 4      \* longest pattern handed to determine_type in SpecType
MaxFields == 5      \* most ':'-separated fields of a line in SpecEntry
MaxLines == 3       \* most lines of a file in SpecLoad

(***************************************************************************)
(* Program constants.                                                      *)
(***************************************************************************)
DefaultWeight == 50
I32Max == 2147483647

(***************************************************************************)
(* Option<T> and the outcome of a call that may panic.                     *)
(***************************************************************************)
None == [tag |-> "None"]
Some(v) == [tag |-> "Some", v |-> v]
Panic == [tag |-> "Panic"]
NoValue == [tag |-> "NoValue"]

(***************************************************************************)
(* Characters and strings.                                                 *)
(***************************************************************************)
\* the printable ASCII characters in code order: codes 32..95 and 97..126
\* (code 96, the grave accent, cannot be written in a string of this
\* language; it and the characters beyond ASCII are outside the model)
AsciiLow ==
    <<" ", "!", "\"", "#", "$", "%", "&", "'", "(", ")", "*", "+", ",", "-", ".", "/",
      "0", "1", "2", "3", "4", "5", "6", "7", "8", "9", ":", ";", "<", "=", ">", "?",
      "@", "A", "B", "C", "D", "E", "F", "G", "H", "I", "J", "K", "L", "M", "N", "O",
      "P", "Q", "R", "S", "T", "U", "V", "W", "X", "Y", "Z", "[", "\\", "]", "^", "_">>
AsciiHigh ==
    <<"a", "b", "c", "d", "e", "f", "g", "h", "i", "j", "k", "l", "m", "n", "o",
      "p", "q", "r", "s", "t", "u", "v", "w", "x", "y", "z", "{", "|", "}", "~">>

\* the code of a character (a byte of the string, the order of chars)
CharCode(c) ==
    IF \E i \in 1..Len(AsciiLow) : AsciiLow[i] = c
    THEN 31 + (CHOOSE i \in 1..Len(AsciiLow) : AsciiLow[i] = c)
    ELSE 96 + (CHOOSE i \in 1..Len(AsciiHigh) : AsciiHigh[i] = c)

AsciiUpper ==
    <<"A", "B", "C", "D", "E", "F", "G", "H", "I", "J", "K", "L", "M", "N", "O", "P",
      "Q", "R", "S", "T", "U", "V", "W", "X", "Y", "Z">>
AsciiLower ==
    <<"a", "b", "c", "d", "e", "f", "g", "h", "i", "j", "k", "l", "m", "n", "o", "p",
      "q", "r", "s", "t", "u", "v", "w", "x", "y", "z">>

\* char::to_lowercase on ASCII: A-Z to a-z, every other character unchanged
LowerChar(c) ==
    IF \E i \in 1..Len(AsciiUpper) : AsciiUpper[i] = c
    THEN AsciiLower[CHOOSE i \in 1..Len(AsciiUpper) : AsciiUpper[i] = c]
    ELSE c

\* str::to_lowercase
to_lowercase(s) == [i \in 1..Len(s) |-> LowerChar(s[i])]

\* str::is_empty
is_empty(s) == Len(s) = 0

\* str::contains(char)
contains(s, c) == \E i \in 1..Len(s) : s[i] = c

\* str::ends_with(&str)
ends_with(s, suffix) ==
    /\ Len(suffix) <= Len(s)
    /\ SubSeq(s, Len(s) - Len(suffix) + 1, Len(s)) = suffix

\* str::starts_with(char)
starts_with(s, c) == Len(s) > 0 /\ s[1] = c

\* str::split(char): the fields between the separators, at least one
RECURSIVE SplitFrom(_, _, _, _)
SplitFrom(s, c, i, cur) ==
    IF i > Len(s) THEN <<cur>>
    ELSE IF s[i] = c THEN <<cur>> \o SplitFrom(s, c, i + 1, <<>>)
    ELSE SplitFrom(s, c, i + 1, Append(cur, s[i]))

split(s, c) == SplitFrom(s, c, 1, <<>>)

\* UniCase::new(a) == UniCase::new(b): equality up to case (ASCII strings)
UniCaseEq(a, b) == to_lowercase(a) = to_lowercase(b)

(***************************************************************************)
(* str::parse::<i32>: an optional sign, then one or more decimal digits,   *)
(* the value within the range of i32.  Err is modelled as None.            *)
(***************************************************************************)
IsDigit(c) == c \in {"0", "1", "2", "3", "4", "5", "6", "7", "8", "9"}

\* the digit loop with checked_mul / checked_add: None on overflow
RECURSIVE AccumulatePositive(_, _)
AccumulatePositive(ds, acc) ==
    IF ds = <<>> THEN Some(acc)
    ELSE LET d == CharCode(Head(ds)) - 48 IN
         IF acc > (I32Max - d) \div 10 THEN None
         ELSE AccumulatePositive(Tail(ds), acc * 10 + d)

\* the digit loop with checked_mul / checked_sub, down to -I32Max - 1
RECURSIVE AccumulateNegative(_, _)
AccumulateNegative(ds, acc) ==
    IF ds = <<>> THEN Some(acc)
    ELSE LET d == CharCode(Head(ds)) - 48
             room == IF d = 0 THEN I32Max ELSE I32Max - (d - 1)
         IN  IF (0 - acc) > room \div 10 THEN None
             ELSE AccumulateNegative(Tail(ds), acc * 10 - d)

parse_i32(s) ==
    LET signed == Len(s) > 0 /\ s[1] \in {"+", "-"}
        ds == IF signed THEN Tail(s) ELSE s
    IN  IF ds = <<>> \/ \E i \in 1..Len(ds) : ~IsDigit(ds[i]) THEN None
        ELSE IF signed /\ s[1] = "-" THEN AccumulateNegative(ds, 0)
        ELSE AccumulatePositive(ds, 0)

(***************************************************************************)
(* The glob crate's Pattern, as glob.rs uses it: Pattern::new compiles the *)
(* text into tokens or fails, Pattern::matches matches a whole name under  *)
(* MatchOptions::new() (case sensitive, no special separator or dot rule). *)
(***************************************************************************)
is_separator(c) == c = "/"

TChar(c) == [t |-> "Char", c |-> c]
TAnyChar == [t |-> "AnyChar"]
TAnySequence == [t |-> "AnySequence"]
TAnyRecursiveSequence == [t |-> "AnyRecursiveSequence"]
TAnyWithin(cs) == [t |-> "AnyWithin", cs |-> cs]
TAnyExcept(cs) == [t |-> "AnyExcept", cs |-> cs]

SingleChar(c) == [k |-> "SingleChar", c |-> c]
CharRange(lo, hi) == [k |-> "CharRange", lo |-> lo, hi |-> hi]

PatternErr == [ok |-> FALSE]

\* s is a Rust slice of chars, i a 0-based index into it
RECURSIVE SpecifiersFrom(_, _)
SpecifiersFrom(s, i) ==
    IF i >= Len(s) THEN <<>>
    ELSE IF i + 3 <= Len(s) /\ s[i + 2] = "-"
         THEN <<CharRange(s[i + 1], s[i + 3])>> \o SpecifiersFrom(s, i + 3)
         ELSE <<SingleChar(s[i + 1])>> \o SpecifiersFrom(s, i + 1)

parse_char_specifiers(s) == SpecifiersFrom(s, 0)

\* chars[from..].iter().position(|x| *x == c): 0-based offset, or -1 for None
RECURSIVE PositionFrom(_, _, _, _)
PositionFrom(chars, from, c, j) ==
    IF from + j >= Len(chars) THEN -1
    ELSE IF chars[from + j + 1] = c THEN j
    ELSE PositionFrom(chars, from, c, j + 1)

\* the end of the run of '*' that starts at 0-based index i
RECURSIVE StarRunEnd(_, _)
StarRunEnd(chars, i) ==
    IF i < Len(chars) /\ chars[i + 1] = "*" THEN StarRunEnd(chars, i + 1) ELSE i

\* the loop of Pattern::new; i is the 0-based index of the next character
RECURSIVE PatternTokens(_, _, _, _)
PatternTokens(chars, i, tokens, is_recursive) ==
    IF i >= Len(chars)
    THEN [ok |-> TRUE, tokens |-> tokens, is_recursive |-> is_recursive]
    ELSE LET c == chars[i + 1] IN
      CASE c = "?" -> PatternTokens(chars, i + 1, Append(tokens, TAnyChar), is_recursive)
        [] c = "*" ->
            LET j == StarRunEnd(chars, i)
                count == j - i
                PushRecursive(next) ==
                    IF ~(Len(tokens) > 1 /\ tokens[Len(tokens)].t = "AnyRecursiveSequence")
                    THEN PatternTokens(chars, next, Append(tokens, TAnyRecursiveSequence), TRUE)
                    ELSE PatternTokens(chars, next, tokens, is_recursive)
            IN  IF count > 2 THEN PatternErr
                ELSE IF count = 2 THEN
                    IF j = 2 \/ is_separator(chars[(j - count - 1) + 1])
                    THEN IF j < Len(chars) /\ is_separator(chars[j + 1]) THEN PushRecursive(j + 1)
                         ELSE IF j = Len(chars) THEN PushRecursive(j)
                         ELSE PatternErr
                    ELSE PatternErr
                ELSE PatternTokens(chars, j, Append(tokens, TAnySequence), is_recursive)
        [] c = "[" ->
            IF i + 4 <= Len(chars) /\ chars[i + 2] = "!"
            THEN LET j == PositionFrom(chars, i + 3, "]", 0) IN
                 IF j = -1 THEN PatternErr
                 ELSE PatternTokens(chars, i + j + 4,
                        Append(tokens, TAnyExcept(parse_char_specifiers(SubSeq(chars, i + 3, i + 3 + j)))),
                        is_recursive)
            ELSE IF i + 3 <= Len(chars) /\ chars[i + 2] # "!"
            THEN LET j == PositionFrom(chars, i + 2, "]", 0) IN
                 IF j = -1 THEN PatternErr
                 ELSE PatternTokens(chars, i + j + 3,
                        Append(tokens, TAnyWithin(parse_char_specifiers(SubSeq(chars, i + 2, i + 2 + j)))),
                        is_recursive)
            ELSE PatternErr
        [] OTHER -> PatternTokens(chars, i + 1, Append(tokens, TChar(c)), is_recursive)

\* Pattern::new(&glob): Ok(Pattern{tokens, original, is_recursive}) or Err
PatternNew(pattern) ==
    LET r == PatternTokens(pattern, 0, <<>>, FALSE) IN
    IF r.ok
    THEN [ok |-> TRUE,
          p |-> [tokens |-> r.tokens, original |-> pattern, is_recursive |-> r.is_recursive]]
    ELSE PatternErr

\* in_char_specifiers under case_sensitive = true
in_char_specifiers(specifiers, c) ==
    \E n \in 1..Len(specifiers) :
        LET sp == specifiers[n] IN
        IF sp.k = "SingleChar" THEN c = sp.c
        ELSE CharCode(c) >= CharCode(sp.lo) /\ CharCode(c) <= CharCode(sp.hi)

\* Pattern::matches_from: "Match", "SubPatternDoesntMatch" or "EntirePatternDoesntMatch";
\* file is what is left of the name, i the 0-based index of the next token.
\* (follows_separator is read only under require_literal_leading_dot, which is off.)
RECURSIVE matches_from(_, _, _)
RECURSIVE SequenceLoop(_, _, _, _)
matches_from(tokens, file, i) ==
    IF i >= Len(tokens)
    THEN IF file = <<>> THEN "Match" ELSE "SubPatternDoesntMatch"
    ELSE LET token == tokens[i + 1] IN
      IF token.t \in {"AnySequence", "AnyRecursiveSequence"}
      THEN LET m == matches_from(tokens, file, i + 1) IN
           IF m # "SubPatternDoesntMatch" THEN m
           ELSE SequenceLoop(tokens, token, file, i)
      ELSE IF file = <<>> THEN "EntirePatternDoesntMatch"
      ELSE LET c == Head(file)
               ok == CASE token.t = "AnyChar" -> TRUE
                       [] token.t = "AnyWithin" -> in_char_specifiers(token.cs, c)
                       [] token.t = "AnyExcept" -> ~in_char_specifiers(token.cs, c)
                       [] token.t = "Char" -> c = token.c
           IN  IF ~ok THEN "SubPatternDoesntMatch"
               ELSE matches_from(tokens, Tail(file), i + 1)

\* the `while let Some(c) = file.next()` loop of a sequence token; when it runs
\* out of characters the token loop goes on to the next token with nothing left
SequenceLoop(tokens, token, file, i) ==
    IF file = <<>> THEN matches_from(tokens, <<>>, i + 1)
    ELSE LET c == Head(file)
             rest == Tail(file)
         IN  IF token.t = "AnyRecursiveSequence" /\ ~is_separator(c)
             THEN SequenceLoop(tokens, token, rest, i)
             ELSE LET m == matches_from(tokens, rest, i + 1) IN
                  IF m # "SubPatternDoesntMatch" THEN m
                  ELSE SequenceLoop(tokens, token, rest, i)

\* Pattern::matches(&str)
PatternMatches(p, file_name) == matches_from(p.tokens, file_name, 0) = "Match"

(***************************************************************************)
(* GlobType and determine_type.                                            *)
(***************************************************************************)
Literal(s) == [tag |-> "Literal", s |-> s]
Simple(s) == [tag |-> "Simple", s |-> s]
Full(p) == [tag |-> "Full", p |-> p]

\* Pattern::new(&glob).unwrap() wrapped in GlobType::Full: a malformed pattern panics
FullOrPanic(glob) ==
    LET r == PatternNew(glob) IN IF r.ok THEN Full(r.p) ELSE Panic

\* the byte loop of determine_type; idx is the 0-based index of the next byte
RECURSIVE ScanGlob(_, _, _)
ScanGlob(glob, idx, maybe_simple) ==
    IF idx >= Len(glob)
    THEN IF maybe_simple THEN Simple(SubSeq(glob, 2, Len(glob))) ELSE Literal(glob)
    ELSE LET ch == glob[idx + 1] IN
         IF idx = 0 /\ ch = "*" THEN ScanGlob(glob, idx + 1, TRUE)
         ELSE IF ch = "\\" \/ ch = "[" \/ ch = "*" \/ ch = "?" THEN FullOrPanic(glob)
         ELSE ScanGlob(glob, idx + 1, maybe_simple)

\* a plausible slip: '?' left out of the metacharacters
RECURSIVE ScanGlobNoQuestion(_, _, _)
ScanGlobNoQuestion(glob, idx, maybe_simple) ==
    IF idx >= Len(glob)
    THEN IF maybe_simple THEN Simple(SubSeq(glob, 2, Len(glob))) ELSE Literal(glob)
    ELSE LET ch == glob[idx + 1] IN
         IF idx = 0 /\ ch = "*" THEN ScanGlobNoQuestion(glob, idx + 1, TRUE)
         ELSE IF ch = "\\" \/ ch = "[" \/ ch = "*" THEN FullOrPanic(glob)
         ELSE ScanGlobNoQuestion(glob, idx + 1, maybe_simple)

determine_type_no_question(glob) == ScanGlobNoQuestion(glob, 0, FALSE)

determine_type(glob) == ScanGlob(glob, 0, FALSE)

(***************************************************************************)
(* Glob: the entry, its ordering and its constructors.  A constructor's    *)
(* outcome is Ok(entry), or Panic when determine_type panics.              *)
(***************************************************************************)
Ok(v) == [tag |-> "Ok", v |-> v]

GlobStruct(glob, weight, case_sensitive, mime_type) ==
    [glob |-> glob, weight |-> weight, case_sensitive |-> case_sensitive,
     mime_type |-> mime_type]

\* impl Ord for Glob: by weight alone
cmp(a, b) ==
    IF a.weight < b.weight THEN "Less"
    ELSE IF a.weight > b.weight THEN "Greater"
    ELSE "Equal"

\* Glob::new
New(mime_type, glob, weight, cs) ==
    LET t == determine_type(glob) IN
    IF t = Panic THEN Panic ELSE Ok(GlobStruct(t, weight, cs, mime_type))

\* Glob::simple
simple(mime_type, glob) ==
    LET t == determine_type(glob) IN
    IF t = Panic THEN Panic ELSE Ok(GlobStruct(t, DefaultWeight, FALSE, mime_type))

\* Glob::with_weight
with_weight(mime_type, glob, weight) ==
    LET t == determine_type(glob) IN
    IF t = Panic THEN Panic ELSE Ok(GlobStruct(t, weight, FALSE, mime_type))

\* a plausible slip: the emptiness check of the two fields left out
from_v1_string_no_empty_check(s) ==
    IF is_empty(s) \/ ~contains(s, ":") THEN None
    ELSE LET chunks == split(s, ":") IN
         IF Len(chunks) < 2 THEN None
         ELSE IF Len(chunks) - 2 # 0 THEN None
         ELSE LET t == determine_type(chunks[2]) IN
              IF t = Panic THEN Panic
              ELSE Some(GlobStruct(t, DefaultWeight, FALSE, chunks[1]))

\* a plausible slip: the leftover fields not counted
from_v1_string_no_leftovers(s) ==
    IF is_empty(s) \/ ~contains(s, ":") THEN None
    ELSE LET chunks == split(s, ":") IN
         IF Len(chunks) < 2 THEN None
         ELSE IF is_empty(chunks[1]) \/ is_empty(chunks[2]) THEN None
         ELSE LET t == determine_type(chunks[2]) IN
              IF t = Panic THEN Panic
              ELSE Some(GlobStruct(t, DefaultWeight, FALSE, chunks[1]))

\* Glob::from_v1_string: None, Some(entry), or Panic from determine_type
from_v1_string(s) ==
    IF is_empty(s) \/ ~contains(s, ":") THEN None
    ELSE LET chunks == split(s, ":") IN
         IF Len(chunks) < 2 THEN None
         ELSE LET mime_type == chunks[1]
                  glob == chunks[2]
              IN  IF is_empty(mime_type) \/ is_empty(glob) THEN None
                  ELSE IF Len(chunks) - 2 # 0 THEN None
                  ELSE LET t == determine_type(glob) IN
                       IF t = Panic THEN Panic
                       ELSE Some(GlobStruct(t, DefaultWeight, FALSE, mime_type))

\* a plausible slip: any fourth field taken as a case-sensitivity marker
from_v2_string_any_fourth(s) ==
    IF is_empty(s) \/ ~contains(s, ":") THEN None
    ELSE LET chunks == split(s, ":")
             parsed == parse_i32(chunks[1])
             weight == IF parsed.tag = "Some" THEN parsed.v ELSE -1
         IN  IF weight < 0 THEN None
             ELSE IF Len(chunks) < 3 THEN None
             ELSE IF is_empty(chunks[2]) \/ is_empty(chunks[3]) THEN None
             ELSE IF Len(chunks) > 4 THEN None
             ELSE LET t == determine_type(chunks[3]) IN
                  IF t = Panic THEN Panic
                  ELSE Some(GlobStruct(t, weight, Len(chunks) >= 4, chunks[2]))

\* a plausible slip: the weight checked but the entry built with the default
from_v2_string_default_weight(s) ==
    IF is_empty(s) \/ ~contains(s, ":") THEN None
    ELSE LET chunks == split(s, ":")
             parsed == parse_i32(chunks[1])
             weight == IF parsed.tag = "Some" THEN parsed.v ELSE -1
         IN  IF weight < 0 THEN None
             ELSE IF Len(chunks) < 3 THEN None
             ELSE IF is_empty(chunks[2]) \/ is_empty(chunks[3]) THEN None
             ELSE IF Len(chunks) >= 4 /\ chunks[4] # <<"c", "s">> THEN None
             ELSE IF Len(chunks) > 4 THEN None
             ELSE LET t == determine_type(chunks[3]) IN
                  IF t = Panic THEN Panic
                  ELSE Some(GlobStruct(t, DefaultWeight, Len(chunks) >= 4, chunks[2]))

\* Glob::from_v2_string: None, Some(entry), or Panic from determine_type
from_v2_string(s) ==
    IF is_empty(s) \/ ~contains(s, ":") THEN None
    ELSE LET chunks == split(s, ":")
             parsed == parse_i32(chunks[1])
             weight == IF parsed.tag = "Some" THEN parsed.v ELSE -1
         IN  IF weight < 0 THEN None
             ELSE IF Len(chunks) < 2 THEN None
             ELSE IF Len(chunks) < 3 THEN None
             ELSE LET mime_type == chunks[2]
                      glob == chunks[3]
                  IN  IF is_empty(mime_type) \/ is_empty(glob) THEN None
                      ELSE IF Len(chunks) >= 4 /\ chunks[4] # <<"c", "s">> THEN None
                      ELSE IF Len(chunks) > 4 THEN None
                      ELSE LET t == determine_type(glob) IN
                           IF t = Panic THEN Panic
                           ELSE Some(GlobStruct(t, weight, Len(chunks) >= 4, mime_type))

\* Glob::compare
compare(g, file_name) ==
    CASE g.glob.tag = "Literal" -> UniCaseEq(g.glob.s, file_name)
      [] g.glob.tag = "Simple" ->
            \/ ends_with(file_name, g.glob.s)
            \/ (~g.case_sensitive /\ ends_with(to_lowercase(file_name), g.glob.s))
      [] g.glob.tag = "Full" -> PatternMatches(g.glob.p, file_name)

(***************************************************************************)
(* The canonical textual forms of an entry (the formats of the two         *)
(* parsers, written out): `type:pattern` and `weight:type:pattern[:cs]`.   *)
(***************************************************************************)
\* the pattern text an entry was built from
PatternText(g) ==
    CASE g.glob.tag = "Literal" -> g.glob.s
      [] g.glob.tag = "Simple" -> <<"*">> \o g.glob.s
      [] g.glob.tag = "Full" -> g.glob.p.original

DigitChar(d) ==
    CASE d = 0 -> "0" [] d = 1 -> "1" [] d = 2 -> "2" [] d = 3 -> "3" [] d = 4 -> "4"
      [] d = 5 -> "5" [] d = 6 -> "6" [] d = 7 -> "7" [] d = 8 -> "8" [] d = 9 -> "9"

RECURSIVE NatToString(_)
NatToString(n) ==
    IF n < 10 THEN <<DigitChar(n)>>
    ELSE Append(NatToString(n \div 10), DigitChar(n % 10))

\* the decimal text of an i32
IntToString(n) == IF n < 0 THEN <<"-">> \o NatToString(0 - n) ELSE NatToString(n)

to_v1_string(g) == g.mime_type \o <<":">> \o PatternText(g)

to_v2_string(g) ==
    IntToString(g.weight) \o <<":">> \o g.mime_type \o <<":">> \o PatternText(g)
        \o (IF g.case_sensitive THEN <<":", "c", "s">> ELSE <<>>)

(***************************************************************************)
(* read_globs_v1_from_file / read_globs_v2_from_file.  A file is whether   *)
(* File::open succeeds, and what BufRead::lines then yields: for each line *)
(* its text (line end stripped), or a read error (bytes that are not       *)
(* UTF-8, a directory, an I/O error).                                      *)
(***************************************************************************)
\* Ok(line) of the lines iterator
LineOk(text) == [ok |-> TRUE, text |-> text]

\* Err(io::Error) of the lines iterator
LineErr == [ok |-> FALSE]

\* the `for line in file.lines()` loop of read_globs_v1_from_file
RECURSIVE ReadLinesV1(_, _)
ReadLinesV1(lines, res) ==
    IF lines = <<>> THEN Some(res)
    ELSE IF ~Head(lines).ok THEN Panic      \* line.unwrap() on a read error
    ELSE LET line == Head(lines).text IN
         IF is_empty(line) \/ starts_with(line, "#") THEN ReadLinesV1(Tail(lines), res)
         ELSE LET r == from_v1_string(line) IN
              CASE r.tag = "Panic" -> Panic
                [] r.tag = "Some" -> ReadLinesV1(Tail(lines), Append(res, r.v))
                [] r.tag = "None" -> ReadLinesV1(Tail(lines), res)

\* the `for line in file.lines()` loop of read_globs_v2_from_file
RECURSIVE ReadLinesV2(_, _)
ReadLinesV2(lines, res) ==
    IF lines = <<>> THEN Some(res)
    ELSE IF ~Head(lines).ok THEN Panic      \* line.unwrap() on a read error
    ELSE LET line == Head(lines).text IN
         IF is_empty(line) \/ starts_with(line, "#") THEN ReadLinesV2(Tail(lines), res)
         ELSE LET r == from_v2_string(line) IN
              CASE r.tag = "Panic" -> Panic
                [] r.tag = "Some" -> ReadLinesV2(Tail(lines), Append(res, r.v))
                [] r.tag = "None" -> ReadLinesV2(Tail(lines), res)

\* a plausible slip: `break` instead of `continue` on a line that does not parse
RECURSIVE ReadLinesV1Break(_, _)
ReadLinesV1Break(lines, res) ==
    IF lines = <<>> THEN Some(res)
    ELSE IF ~Head(lines).ok THEN Panic      \* line.unwrap() on a read error
    ELSE LET line == Head(lines).text IN
         IF is_empty(line) \/ starts_with(line, "#") THEN ReadLinesV1Break(Tail(lines), res)
         ELSE LET r == from_v1_string(line) IN
              CASE r.tag = "Panic" -> Panic
                [] r.tag = "Some" -> ReadLinesV1Break(Tail(lines), Append(res, r.v))
                [] r.tag = "None" -> Some(res)

read_globs_v1_break(file) ==
    IF ~file.opens THEN None ELSE ReadLinesV1Break(file.lines, <<>>)

read_globs_v1_from_file(file) ==
    IF ~file.opens THEN None ELSE ReadLinesV1(file.lines, <<>>)

read_globs_v2_from_file(file) ==
    IF ~file.opens THEN None ELSE ReadLinesV2(file.lines, <<>>)

(***************************************************************************)
(* GlobMap.                                                                *)
(***************************************************************************)
\* GlobMap::new
GlobMapNew == <<>>

\* a plausible slip: an entry already held is not pushed again
add_glob_dedup(gs, glob) ==
    IF \E i \in 1..Len(gs) : gs[i] = glob THEN gs ELSE Append(gs, glob)

\* GlobMap::add_glob
add_glob(gs, glob) == Append(gs, glob)

\* GlobMap::add_globs
add_globs(gs, more) == gs \o more

\* the first loop of lookup: the entries that compare true, in registry order
RECURSIVE MatchingGlobs(_, _)
MatchingGlobs(gs, file_name) ==
    IF gs = <<>> THEN <<>>
    ELSE (IF compare(Head(gs), file_name) THEN <<Head(gs)>> ELSE <<>>)
            \o MatchingGlobs(Tail(gs), file_name)

\* Vec::sort: stable, ascending under cmp
RECURSIVE InsertSorted(_, _)
InsertSorted(sorted, x) ==
    IF sorted = <<>> THEN <<x>>
    ELSE IF cmp(x, Head(sorted)) = "Less" THEN <<x>> \o sorted
    ELSE <<Head(sorted)>> \o InsertSorted(Tail(sorted), x)

RECURSIVE SortFrom(_, _)
SortFrom(rest, sorted) ==
    IF rest = <<>> THEN sorted ELSE SortFrom(Tail(rest), InsertSorted(sorted, Head(rest)))

sort(v) == SortFrom(v, <<>>)

\* a plausible slip: the types collected into a set-like list, a type pushed once
RECURSIVE DedupTypes(_, _)
DedupTypes(gs, res) ==
    IF gs = <<>> THEN res
    ELSE DedupTypes(Tail(gs),
            IF \E i \in 1..Len(res) : res[i] = Head(gs).mime_type THEN res
            ELSE Append(res, Head(gs).mime_type))

lookup_dedup(gs, file_name) ==
    LET matching_globs == MatchingGlobs(gs, file_name) IN
    IF Len(matching_globs) = 0 THEN None
    ELSE Some(DedupTypes(sort(matching_globs), <<>>))

\* GlobMap::lookup_mime_type_for_file_name
lookup_mime_type_for_file_name(gs, file_name) ==
    LET matching_globs == MatchingGlobs(gs, file_name) IN
    IF Len(matching_globs) = 0 THEN None
    ELSE LET sorted == sort(matching_globs) IN
         Some([i \in 1..Len(sorted) |-> sorted[i].mime_type])

(***************************************************************************)
(* Inputs.                                                                 *)
(***************************************************************************)
\* all sequences over S of length lo..hi
SeqsOf(S, lo, hi) == UNION {[1..n -> S] : n \in lo..hi}

\* the fields joined by ':' (every string is the join of its ':'-free fields)
RECURSIVE JoinFields(_)
JoinFields(fields) ==
    IF Len(fields) = 1 THEN fields[1]
    ELSE fields[1] \o <<":">> \o JoinFields(Tail(fields))

\* entries the registry is fed with: Glob::new on these arguments
RegParts ==
    {[mime_type |-> <<"a">>, glob |-> <<"*", ".", "c">>, weight |-> 50, cs |-> FALSE],
     [mime_type |-> <<"b">>, glob |-> <<"*", ".", "c">>, weight |-> 80, cs |-> FALSE],
     [mime_type |-> <<"a">>, glob |-> <<"*", ".", "C">>, weight |-> 80, cs |-> TRUE],
     [mime_type |-> <<"b">>, glob |-> <<"*", ".", "C">>, weight |-> 50, cs |-> TRUE],
     [mime_type |-> <<"a">>, glob |-> <<"x", ".", "c">>, weight |-> 50, cs |-> FALSE],
     [mime_type |-> <<"b">>, glob |-> <<"x", ".", "c">>, weight |-> 80, cs |-> FALSE],
     [mime_type |-> <<"a">>, glob |-> <<"*", ".", "[", "c", "h", "]">>, weight |-> 80, cs |-> FALSE],
     [mime_type |-> <<"b">>, glob |-> <<"*", ".", "[", "c", "h", "]">>, weight |-> 50, cs |-> FALSE]}
RegTypes == {p.mime_type : p \in RegParts}
Entries == {New(p.mime_type, p.glob, p.weight, p.cs).v : p \in RegParts}
FileNames == {<<"x", ".", "c">>, <<"X", ".", "C">>, <<"a", ".", "h">>, <<"b">>}

\* ':'-free fields the lines given to the parsers are joined from
FieldSet ==
    {<<>>, <<"t">>, <<"c", "s">>, <<"5", "0">>, <<"-", "1">>, <<"[">>,
     <<"2", "1", "4", "7", "4", "8", "3", "6", "4", "8">>}

\* arguments of the direct constructors, and the name compared against
PartTypes == {<<>>, <<"t">>, <<"t", ":", "u">>}
PartPatterns ==
    {<<>>, <<"*", ".", "c">>, <<"*", ".", "C">>, <<"x", ".", "c">>, <<"a", ":", "b">>,
     <<"*", ".", "[", "c", "h", "]">>, <<"[">>}
PartWeights == {-1, 0, 50, 80}
PartNames == {<<"x", ".", "c">>, <<"x", ".", "C">>, <<"X", ".", "C">>, <<"x", ".", "h">>}

LineInputs == {[kind |-> "line", fields |-> f] : f \in SeqsOf(FieldSet, 1, MaxFields)}
PartInputs ==
    [kind : {"parts"}, mime_type : PartTypes, glob : PartPatterns,
     weight : PartWeights, cs : BOOLEAN, file_name : PartNames]

\* patterns handed to determine_type
TypeAlphabet == {"*", "?", "[", "]", "\\", "a", "!"}
PatternInputs == {[kind |-> "pattern", glob |-> g] : g \in SeqsOf(TypeAlphabet, 0, MaxPatLen)}

\* lines of the files loaded
LineSet ==
    {<<>>,
     <<"#", "t", ":", "*", ".", "c">>,
     <<"t", ":", "*", ".", "c">>,
     <<"u", ":", "x">>,
     <<"8", "0", ":", "t", ":", "*", ".", "c">>,
     <<"5", "0", ":", "u", ":", "x", ":", "c", "s">>,
     <<"t", ":", "[">>,
     <<"5", "0", ":", "t", ":", "[">>,
     <<"b", "a", "d">>}
LineItems == {LineOk(l) : l \in LineSet} \cup {LineErr}
FileInputs ==
    {[kind |-> "file", opens |-> o, lines |-> ls] :
        o \in BOOLEAN, ls \in SeqsOf(LineItems, 0, MaxLines)}

(***************************************************************************)
(* Spec: a GlobMap under add_glob, add_globs and lookups.                  *)
(***************************************************************************)
Init ==
    /\ globs = GlobMapNew
    /\ inserted = <<>>
    /\ input = NoValue
    /\ op = "GlobMap::new"
    /\ arg = NoValue
    /\ ret = NoValue

AddGlob ==
    \E g \in Entries :
        /\ Len(globs) < MaxGlobs
        /\ globs' = add_glob(globs, g)
        /\ inserted' = Append(inserted, g)
        /\ op' = "add_glob"
        /\ arg' = [tag |-> "Glob", v |-> g]
        /\ ret' = NoValue
        /\ UNCHANGED input

AddGlobs ==
    \E gs \in SeqsOf(Entries, 0, MaxBulk) :
        /\ Len(globs) + Len(gs) <= MaxGlobs
        /\ globs' = add_globs(globs, gs)
        /\ inserted' = inserted \o gs
        /\ op' = "add_globs"
        /\ arg' = [tag |-> "Globs", v |-> gs]
        /\ ret' = NoValue
        /\ UNCHANGED input

Lookup ==
    \E file_name \in FileNames :
        /\ op' = "lookup"
        /\ arg' = [tag |-> "Str", v |-> file_name]
        /\ ret' = lookup_mime_type_for_file_name(globs, file_name)
        /\ UNCHANGED <<globs, inserted, input>>

Next == AddGlob \/ AddGlobs \/ Lookup

Spec == Init /\ [][Next]_vars

(***************************************************************************)
(* SpecEntry: one call of a constructor or parser on the input, then a     *)
(* compare or a round trip through the textual form on the entry built.    *)
(***************************************************************************)
InitEntry ==
    /\ globs = GlobMapNew
    /\ inserted = <<>>
    /\ input \in LineInputs \cup PartInputs
    /\ op = "start"
    /\ arg = NoValue
    /\ ret = NoValue

Call(name, a, r) ==
    /\ op' = name
    /\ arg' = a
    /\ ret' = r
    /\ UNCHANGED <<globs, inserted, input>>

CallFromV1 ==
    /\ op = "start" /\ input.kind = "line"
    /\ LET s == JoinFields(input.fields) IN
       Call("from_v1_string", [tag |-> "Str", v |-> s], from_v1_string(s))

CallFromV2 ==
    /\ op = "start" /\ input.kind = "line"
    /\ LET s == JoinFields(input.fields) IN
       Call("from_v2_string", [tag |-> "Str", v |-> s], from_v2_string(s))

CallNew ==
    /\ op = "start" /\ input.kind = "parts"
    /\ Call("new", NoValue, New(input.mime_type, input.glob, input.weight, input.cs))

CallSimple ==
    /\ op = "start" /\ input.kind = "parts"
    /\ Call("simple", NoValue, simple(input.mime_type, input.glob))

CallWithWeight ==
    /\ op = "start" /\ input.kind = "parts"
    /\ Call("with_weight", NoValue, with_weight(input.mime_type, input.glob, input.weight))

CallCompare ==
    /\ op \in {"new", "simple", "with_weight"} /\ ret.tag = "Ok"
    /\ Call("compare", ret, [tag |-> "Bool", v |-> compare(ret.v, input.file_name)])

RoundTripV1 ==
    /\ op = "new" /\ ret.tag = "Ok"
    /\ Call("roundtrip_v1", ret, from_v1_string(to_v1_string(ret.v)))

RoundTripV2 ==
    /\ op = "new" /\ ret.tag = "Ok"
    /\ Call("roundtrip_v2", ret, from_v2_string(to_v2_string(ret.v)))

NextEntry ==
    \/ CallFromV1 \/ CallFromV2
    \/ CallNew \/ CallSimple \/ CallWithWeight
    \/ CallCompare \/ RoundTripV1 \/ RoundTripV2

SpecEntry == InitEntry /\ [][NextEntry]_vars

(***************************************************************************)
(* SpecType: determine_type on every pattern over TypeAlphabet.            *)
(***************************************************************************)
InitType ==
    /\ globs = GlobMapNew
    /\ inserted = <<>>
    /\ input \in PatternInputs
    /\ op = "start"
    /\ arg = NoValue
    /\ ret = NoValue

CallDetermineType ==
    /\ op = "start"
    /\ Call("determine_type", [tag |-> "Str", v |-> input.glob], determine_type(input.glob))

NextType == CallDetermineType

SpecType == InitType /\ [][NextType]_vars

(***************************************************************************)
(* SpecLoad: one file read by either loader.                               *)
(***************************************************************************)
InitLoad ==
    /\ globs = GlobMapNew
    /\ inserted = <<>>
    /\ input \in FileInputs
    /\ op = "start"
    /\ arg = NoValue
    /\ ret = NoValue

ReadV1 ==
    /\ op = "start"
    /\ Call("read_globs_v1_from_file", NoValue, read_globs_v1_from_file(input))

ReadV2 ==
    /\ op = "start"
    /\ Call("read_globs_v2_from_file", NoValue, read_globs_v2_from_file(input))

NextLoad == ReadV1 \/ ReadV2

SpecLoad == InitLoad /\ [][NextLoad]_vars

(***************************************************************************)
(* Properties.                                                             *)
(***************************************************************************)
\* indices of the registry entries that match the name looked up
MatchIdx(file_name) == {i \in 1..Len(globs) : compare(globs[i], file_name)}

\* the stable sort by descending weight, as a specification: x goes behind
\* every element whose weight is not smaller
RECURSIVE InsertDescending(_, _)
InsertDescending(sorted, x) ==
    IF sorted = <<>> THEN <<x>>
    ELSE IF Head(sorted).weight < x.weight THEN <<x>> \o sorted
    ELSE <<Head(sorted)>> \o InsertDescending(Tail(sorted), x)

RECURSIVE SortDescendingFrom(_, _)
SortDescendingFrom(rest, sorted) ==
    IF rest = <<>> THEN sorted
    ELSE SortDescendingFrom(Tail(rest), InsertDescending(sorted, Head(rest)))

StableDescending(v) == SortDescendingFrom(v, <<>>)

TypesOf(v) == [i \in 1..Len(v) |-> v[i].mime_type]

\* C1: a lookup that matches returns the types of the matching entries in
\* descending order of weight, entries of equal weight in insertion order.
\* (The code sorts ascending: violated.)
C1_DescendingStable ==
    (op = "lookup" /\ ret.tag = "Some")
        => ret.v = TypesOf(StableDescending(MatchingGlobs(globs, arg.v)))

\* C2: a lookup returns None exactly when no entry matches the name, and
\* otherwise a non-empty list with exactly one type per matching entry,
\* duplicates kept.
C2_NoneIffNoMatch ==
    op = "lookup" =>
        LET m == MatchIdx(arg.v) IN
        /\ (ret = None) <=> (m = {})
        /\ ret # None =>
            /\ ret.tag = "Some"
            /\ Len(ret.v) > 0
            /\ Len(ret.v) = Cardinality(m)
            /\ \A t \in RegTypes :
                Cardinality({j \in 1..Len(ret.v) : ret.v[j] = t})
                    = Cardinality({i \in m : globs[i].mime_type = t})

C2_Witness ==
    /\ op = "lookup" /\ ret.tag = "Some"
    /\ Len(ret.v) = 2 /\ ret.v[1] = ret.v[2]
    /\ Len(globs) = 3

\* C3: a case-sensitive suffix entry matches exactly the names that end with
\* S; a case-insensitive one matches every name that ends with S up to case.
\* (The code lowercases the name only, not S: violated by `*.C` on `x.c`.)
C3_SuffixCase ==
    (op = "compare" /\ arg.v.glob.tag = "Simple") =>
        LET S == arg.v.glob.s
            n == input.file_name
        IN  IF arg.v.case_sensitive
            THEN ret.v = ends_with(n, S)
            ELSE ends_with(to_lowercase(n), to_lowercase(S)) => ret.v

\* the entries of the lines that are kept and parse, in file order
RECURSIVE ParsedV1(_)
ParsedV1(lines) ==
    IF lines = <<>> THEN <<>>
    ELSE LET l == Head(lines)
             kept == l # <<>> /\ l[1] # "#" /\ from_v1_string(l).tag = "Some"
         IN  (IF kept THEN <<from_v1_string(l).v>> ELSE <<>>) \o ParsedV1(Tail(lines))

RECURSIVE ParsedV2(_)
ParsedV2(lines) ==
    IF lines = <<>> THEN <<>>
    ELSE LET l == Head(lines)
             kept == l # <<>> /\ l[1] # "#" /\ from_v2_string(l).tag = "Some"
         IN  (IF kept THEN <<from_v2_string(l).v>> ELSE <<>>) \o ParsedV2(Tail(lines))

\* some line that is not blank and not a comment makes the per-line constructor panic
PanickingLineV1(lines) ==
    \E i \in 1..Len(lines) :
        lines[i] # <<>> /\ lines[i][1] # "#" /\ from_v1_string(lines[i]) = Panic

PanickingLineV2(lines) ==
    \E i \in 1..Len(lines) :
        lines[i] # <<>> /\ lines[i][1] # "#" /\ from_v2_string(lines[i]) = Panic

\* the source is readable: it opens and every line of it reads as text
Readable(file) == file.opens /\ \A i \in 1..Len(file.lines) : file.lines[i].ok

\* the lines of a readable source
Texts(file) == [i \in 1..Len(file.lines) |-> file.lines[i].text]

\* C4 as claimed: loading a readable source always returns the entries of the
\* lines that are kept and parse; any other line, a malformed glob included,
\* is skipped.  (A line whose pattern is a malformed glob panics: violated.)
C4_AlwaysReturns ==
    /\ (op = "read_globs_v1_from_file" /\ Readable(input))
            => ret = Some(ParsedV1(Texts(input)))
    /\ (op = "read_globs_v2_from_file" /\ Readable(input))
            => ret = Some(ParsedV2(Texts(input)))

\* C4 amended: loading a readable source returns the entries of the lines that
\* are kept and parse, in file order, skipping lines of the wrong field shape,
\* unless a kept line with well-formed fields carries a malformed glob: then
\* the load panics.
C4_ReturnsUnlessMalformedGlob ==
    /\ (op = "read_globs_v1_from_file" /\ Readable(input)) =>
            ret = (IF PanickingLineV1(Texts(input)) THEN Panic
                   ELSE Some(ParsedV1(Texts(input))))
    /\ (op = "read_globs_v2_from_file" /\ Readable(input)) =>
            ret = (IF PanickingLineV2(Texts(input)) THEN Panic
                   ELSE Some(ParsedV2(Texts(input))))

\* a file with a comment, a line of the wrong shape and then a line that parses
C4_Witness ==
    /\ op = "read_globs_v1_from_file" /\ Readable(input)
    /\ Len(input.lines) = 3
    /\ input.lines[1].text = <<"#", "t", ":", "*", ".", "c">>
    /\ input.lines[2].text = <<"b", "a", "d">>
    /\ ret.tag = "Some" /\ Len(ret.v) = 1

\* a source that opens but does not read as text panics in either loader
LoadPanicsOnReadError ==
    (op \in {"read_globs_v1_from_file", "read_globs_v2_from_file"}
        /\ input.opens /\ ~Readable(input)) => ret = Panic

\* a decimal numeral with an optional sign
IsNumeral(f) ==
    LET ds == IF Len(f) > 0 /\ f[1] \in {"+", "-"} THEN Tail(f) ELSE f IN
    ds # <<>> /\ \A i \in 1..Len(ds) : IsDigit(ds[i])

\* a numeral that denotes a non-negative integer (of any size)
IsNonNegativeNumeral(f) ==
    IsNumeral(f) /\ (f[1] = "-" => \A i \in 2..Len(f) : f[i] = "0")

\* the fields have the shape weight:type:pattern[:cs], the weight left aside
V2FieldShape(f) ==
    /\ Len(f) \in {3, 4}
    /\ f[2] # <<>>
    /\ f[3] # <<>>
    /\ Len(f) = 4 => f[4] = <<"c", "s">>

\* C5 as claimed: from_v2_string yields an entry exactly for the lines
\* weight:type:pattern[:cs] with a non-negative integer weight, and None for
\* every other line.  (A weight beyond i32 yields None and a malformed glob
\* panics: violated.)
C5_AcceptsIffShape ==
    op = "from_v2_string" =>
        LET f == input.fields IN
        IF V2FieldShape(f) /\ IsNonNegativeNumeral(f[1])
        THEN /\ ret.tag = "Some"
             /\ ret.v.weight >= 0
             /\ ret.v.mime_type = f[2]
             /\ ret.v.case_sensitive = (Len(f) = 4)
        ELSE ret = None

\* C5 amended: the weight must parse as an i32 and be non-negative; on such a
\* line the entry has that weight, that type, the pattern's shape and
\* case_sensitive iff the fourth field is `cs`, except that a malformed glob
\* panics; every other line yields None; a parsed entry has weight >= 0.
C5_AcceptsIffShapeI32 ==
    op = "from_v2_string" =>
        LET f == input.fields
            w == parse_i32(f[1])
        IN  /\ IF V2FieldShape(f) /\ w.tag = "Some" /\ w.v >= 0
               THEN IF determine_type(f[3]) = Panic THEN ret = Panic
                    ELSE ret = Some(GlobStruct(determine_type(f[3]), w.v, Len(f) = 4, f[2]))
               ELSE ret = None
            /\ ret.tag = "Some" => ret.v.weight >= 0

C5_Witness ==
    /\ op = "from_v2_string" /\ ret.tag = "Some"
    /\ ret.v.case_sensitive /\ ret.v.weight = 50

\* Some(entry) for a constructor's Ok(entry); a panic stays a panic
AsOption(r) == IF r.tag = "Ok" THEN Some(r.v) ELSE r

\* C6 as claimed: from_v1_string returns None unless the line is exactly two
\* non-empty ':'-separated fields, and on every such line it returns an entry,
\* the one Glob::new(type, pattern, 50, false) builds.  (A line whose pattern
\* is a malformed glob returns nothing, the call panics: violated.)
C6_V1ParseReturnsEntry ==
    op = "from_v1_string" =>
        LET f == input.fields IN
        IF Len(f) # 2 \/ f[1] = <<>> \/ f[2] = <<>>
        THEN ret = None
        ELSE /\ ret.tag = "Some"
             /\ New(f[1], f[2], 50, FALSE).tag = "Ok"
             /\ ret.v = New(f[1], f[2], 50, FALSE).v

\* C6 amended: from_v1_string returns None unless the line is exactly two
\* non-empty ':'-separated fields; on such a line it panics when the pattern
\* is a malformed glob, as Glob::new(type, pattern, 50, false) does, and
\* otherwise returns an entry equal to the one Glob::new builds.
C6_V1ParseOrPanics ==
    op = "from_v1_string" =>
        LET f == input.fields IN
        IF Len(f) # 2 \/ f[1] = <<>> \/ f[2] = <<>>
        THEN ret = None
        ELSE IF determine_type(f[2]) = Panic
        THEN ret = Panic /\ New(f[1], f[2], 50, FALSE) = Panic
        ELSE /\ ret.tag = "Some"
             /\ ret = AsOption(New(f[1], f[2], 50, FALSE))

C6_Witness ==
    /\ op = "from_v1_string" /\ ret.tag = "Some"
    /\ ret.v.weight = 50 /\ ~ret.v.case_sensitive

\* C7 as claimed: the textual form of any entry built by Glob::new parses back
\* to an equal entry, in either format.  (v1 carries no weight and no flag,
\* and ':' or an empty field does not survive: violated.)
C7_RoundTripAny ==
    op \in {"roundtrip_v1", "roundtrip_v2"} => ret = Some(arg.v)

\* type and pattern are non-empty and hold no ':'
Representable(mime_type, glob) ==
    /\ mime_type # <<>> /\ ~contains(mime_type, ":")
    /\ glob # <<>> /\ ~contains(glob, ":")

\* C7 amended: for an entry built by Glob::new from a non-empty type and a
\* non-empty pattern without ':', the v2 form parses back to an equal entry
\* when the weight is non-negative, and the v1 form when the weight is 50 and
\* the entry is case-insensitive.
C7_RoundTripRepresentable ==
    /\ (op = "roundtrip_v2" /\ Representable(input.mime_type, input.glob)
            /\ input.weight >= 0)
        => ret = Some(arg.v)
    /\ (op = "roundtrip_v1" /\ Representable(input.mime_type, input.glob)
            /\ input.weight = 50 /\ ~input.cs)
        => ret = Some(arg.v)

C7_Witness ==
    /\ op = "roundtrip_v2" /\ ret.tag = "Some" /\ ret = Some(arg.v)
    /\ arg.v.case_sensitive /\ arg.v.weight = 80 /\ arg.v.glob.tag = "Full"

NonEmptyEntry(g) == g.mime_type # <<>> /\ PatternText(g) # <<>>

\* C8 as claimed: every entry any constructor or parser produces has a
\* non-empty type and a non-empty pattern text.  (Glob::new, Glob::simple and
\* Glob::with_weight take empty strings: violated.)
C8_AllNonEmpty ==
    /\ (op \in {"new", "simple", "with_weight"} /\ ret.tag = "Ok") => NonEmptyEntry(ret.v)
    /\ (op \in {"from_v1_string", "from_v2_string"} /\ ret.tag = "Some") => NonEmptyEntry(ret.v)

\* C8 amended: every entry from_v1_string or from_v2_string produces has a
\* non-empty type and a non-empty pattern text.
C8_ParsedNonEmpty ==
    (op \in {"from_v1_string", "from_v2_string"} /\ ret.tag = "Some") => NonEmptyEntry(ret.v)

C8_Witness ==
    /\ op = "from_v1_string" /\ ret.tag = "Some"
    /\ Len(input.fields) = 2

\* C9: the registry starts empty and always holds exactly the entries
\* inserted, in call order; a lookup leaves it unchanged, and a lookup
\* repeated with no insertion in between returns the same result.
C9_AppendOnly ==
    /\ [](globs = inserted)
    /\ [][op' = "lookup" => globs' = globs]_vars
    /\ [][(op = "lookup" /\ op' = "lookup" /\ arg' = arg) => ret' = ret]_vars

C9_Witness ==
    /\ op = "lookup" /\ ret.tag = "Some"
    /\ Len(globs) = 3 /\ globs[1] = globs[3]

\* a metacharacter at some position: `\`, `[`, `?`, or a `*` that is not first
HasMeta(g) ==
    \E i \in 1..Len(g) : g[i] \in {"\\", "[", "?"} \/ (g[i] = "*" /\ i # 1)

\* C10 as claimed: determine_type gives every pattern exactly one shape, Full
\* if it holds a metacharacter, else Simple(S) for `*`S, else Literal.
\* (A malformed glob panics: violated.)
C10_Classifies ==
    op = "determine_type" =>
        LET g == input.glob IN
        IF HasMeta(g) THEN ret.tag = "Full"
        ELSE IF g # <<>> /\ g[1] = "*" THEN ret = Simple(Tail(g))
        ELSE ret = Literal(g)

\* C10 amended: a pattern with a metacharacter is Full with the compiled
\* pattern when Pattern::new accepts it and a panic when it does not; else
\* Simple(S) for `*`S, else Literal with the text unchanged.
C10_ClassifiesOrPanics ==
    op = "determine_type" =>
        LET g == input.glob IN
        IF HasMeta(g)
        THEN IF PatternNew(g).ok
             THEN ret.tag = "Full" /\ ret.p.original = g
             ELSE ret = Panic
        ELSE IF g # <<>> /\ g[1] = "*" THEN ret = Simple(Tail(g))
        ELSE ret = Literal(g)

C10_Witness ==
    /\ op = "determine_type" /\ ret.tag = "Full"
    /\ input.glob = <<"*", "[", "a", "]">>

=============================================================================
